---------------------------- MODULE Spec2Model ----------------------------
(***************************************************************************)
(* Model of the sftools Salesforce client: the paginated SF.query loop     *)
(* (sftools/sf.py), the QueryResult merge (sftools/result.py), the         *)
(* expired-session retry wrappers (sftools/sf.py, sftools/type.py), the    *)
(* SOQL query builder and the filter helpers (sftools/soql.py,             *)
(* sftools/type.py), the memoized SF.sftype (sftools/sf.py), the copies    *)
(* of a SOQL object SF.query works on and the identity cache of a type     *)
(* proxy (sftools/type.py).                                                *)
(*                                                                         *)
(* The remote is the environment.  A query response is the payload         *)
(* {totalSize, done, records}; the size of the remote's result set may be  *)
(* different at every request (records are created and deleted while a     *)
(* query runs), so each response is computed from a size drawn from        *)
(* Totals.  A record is identified by its position in the result set.      *)
(***************************************************************************)
EXTENDS Integers, Sequences, FiniteSets, TLC

VARIABLES
    preload_fields, \* SF.preload_fields, the client's default mode
    op,             \* operation in progress: "none", "query", "call", "type"
    caller,         \* the SOQL object the caller passed to SF.query
    soql,           \* SF.query's private copy of it
    sent,           \* the SOQL of the remote request in flight
    qpc,            \* position of SF.query: "idle", "count", "page", "loop"
    counted,        \* totalSize reported by the count query
    count,          \* local 'count' of SF.query
    hard_limit,     \* local 'hard_limit' of SF.query
    results,        \* local 'results' of SF.query (a QueryResult payload)
    wpc,            \* position of the retry wrapper
    after_refresh,  \* whether the wrapped call was given an after_refresh
    ret,            \* value returned by the wrapped action
    events,         \* what the current wrapped call has invoked, in order
    attempts,       \* how each invocation of the action ended, in order
    refreshed,      \* how the refresh of the current wrapped call ended
    outcome,        \* "none", "returned", "raised"
    err,            \* the exception raised, "none" otherwise
    offsets,        \* OFFSET of the first MaxFetchLog page fetches
    nfetch,         \* page fetches issued by the running query (saturating)
    nmerge,         \* QueryResult.__add__ calls of the running query (saturating)
    allFull,        \* every page received so far held LIMIT records
    addA, addB, addR, addDone,  \* operands and result of a stand-alone merge
    sq,             \* a SOQL object: its _SELECT, _FROM, ... attributes
    sqprev,         \* the object before the last operation on it
    sqop,           \* the last operation on it ("none": not constructed)
    sqarg,          \* the argument of that operation
    sqerr,          \* the exception that operation raised, "none" otherwise
    sqtext,         \* what SOQL.clause answered since that operation
    wfn,            \* the WhereUtil / type.py function called last
    wname,          \* its 'name' argument
    wargs,          \* its *args
    wout,           \* the value it returned
    tcached,        \* SF.sftype's cache holds an entry for (client, name)
    tnewer,         \* cache entries used more recently than that entry
    tolder,         \* cache entries used less recently than that entry
    tproxy,         \* the SFType instance that entry holds (0: none)
    tmade,          \* SFType instances made for (client, name) so far
    tlookups,       \* 1 once a lookup ran after sftype(name) had returned
    tgot,           \* what the last sftype(name) call returned (0: nothing)
    tfirst,         \* what the first successful sftype(name) call returned
    tsession,       \* Salesforce instances the client has gone through
    tobjs,          \* per SFType instance made: the SFObject its _sfobjects
                    \* holds for the followed identifier (0: none)
    tnobj,          \* SFObjects made for that identifier so far
    theld,          \* the SFObject first materialized for it (0: none yet)
    tobj,           \* what the last materialize / lookup by id returned
    heap,           \* the list objects and the SOQL objects that refer to them
    hop,            \* what runs on them: "none", "copy", "query", "query_count"
    hpc,            \* position of SF.query / SF.query_count on its copy
    hbefore,        \* the contents of every SOQL object before the last step
    htarget,        \* the SOQL object the last SELECT_AND / ORDER_BY_AND was
                    \* called on (0: none)
    hnops,          \* SELECT_AND / ORDER_BY_AND calls so far
    sfobjects,      \* SFType._sfobjects: identifier -> SFObject
    orecord,        \* the record (backing mapping) of every SFObject made
    cpc,            \* position of each caller inside SFType.__call__
    carg,           \* the argument of each caller's call
    cobj,           \* the local 'obj' of each caller (0: unbound)
    cres,           \* what each caller's last call returned or raised
    cbefore,        \* _sfobjects and the records when that call began
    nremote,        \* remote calls each caller's last call issued
    tinfos,         \* SFType._recordtypeinfos has been computed
    raced,          \* identifiers looked up while another caller was between
                    \* the lookup and the insertion of the same identifier
    ncalls          \* calls of the type proxy begun so far

queryVars == <<preload_fields, op, caller, soql,
               sent, qpc, counted, count, hard_limit, results, wpc,
               after_refresh, ret, events, attempts, refreshed, outcome, err,
               offsets, nfetch, nmerge, allFull>>

addVars == <<addA, addB, addR, addDone>>

soqlVars == <<sq, sqprev, sqop, sqarg, sqerr, sqtext>>

whereVars == <<wfn, wname, wargs, wout>>

typeVars == <<tcached, tnewer, tolder, tproxy, tmade, tlookups, tgot,
              tfirst, tsession, tobjs, tnobj, theld, tobj>>

copyVars == <<heap, hop, hpc, hbefore, htarget, hnops>>

cacheVars == <<sfobjects, orecord, cpc, carg, cobj, cres, cbefore, nremote,
               tinfos, raced, ncalls>>

otherVars == <<copyVars, cacheVars>>

pureVars == <<addVars, soqlVars, whereVars, typeVars, otherVars>>

vars == <<queryVars, pureVars>>

-----------------------------------------------------------------------------
(* Bounds *)

MaxFetchLog == 3
MaxCount == 4

\* sizes the remote's result set takes
Totals == {0, 1, 250, 2200, 4000, 4500}
\* LIMIT values a caller sets (0: none)
Limits == {0, 1, 300, 2500}
\* OFFSET values a caller sets
CallerOffsets == {0, 1}

-----------------------------------------------------------------------------
(* Program constants *)

QUERY_HARD_LIMIT == 2000
FIELDS_ALL_HARD_LIMIT == 200
OFFSET_HARD_LIMIT == 2000

-----------------------------------------------------------------------------
(* Helpers *)

Min(a, b) == IF a <= b THEN a ELSE b
Max(a, b) == IF a >= b THEN a ELSE b

\* a history counter that stops counting at MaxCount
Sat(n) == Min(n + 1, MaxCount)

\* a history log that keeps its first MaxFetchLog entries
Log(s, x) == IF Len(s) < MaxFetchLog THEN Append(s, x) ELSE s

\* dict.get(key, default)
Get(d, key, default) == IF key \in DOMAIN d THEN d[key] ELSE default

\* Python values the query builder is given.  A str is the sequence of its
\* tokens: a token is the separator ",", the blank " " or a piece of text
\* that holds neither; a list holds strs (their token sequences).
PyNone == [t |-> "None"]
Str(s) == [t |-> "str", v |-> s]
List(l) == [t |-> "list", v |-> l]
PyInt(n) == [t |-> "int", n |-> n]

\* bool(x)
Truthy(x) ==
    CASE x.t = "None" -> FALSE
      [] x.t = "int" -> x.n # 0
      [] OTHER -> x.v # <<>>

\* str(x) as f-strings format it
PyStr(x) == IF x.t = "None" THEN <<"None">> ELSE x.v

\* x in s
Contains(s, x) == \E i \in 1..Len(s) : s[i] = x

RECURSIVE lstrip(_)
lstrip(s) == IF s # <<>> /\ Head(s) = " " THEN lstrip(Tail(s)) ELSE s

RECURSIVE rstrip(_)
rstrip(s) ==
    IF s # <<>> /\ s[Len(s)] = " " THEN rstrip(SubSeq(s, 1, Len(s) - 1))
    ELSE s

\* str.strip()
strip(s) == rstrip(lstrip(s))

RECURSIVE split(_)
\* str.split(','): the pieces between the separators
split(s) ==
    IF Contains(s, ",")
    THEN LET i == CHOOSE k \in 1..Len(s) :
                    s[k] = "," /\ \A j \in 1..(k - 1) : s[j] # ","
         IN  <<SubSeq(s, 1, i - 1)>> \o split(SubSeq(s, i + 1, Len(s)))
    ELSE <<s>>

RECURSIVE join(_, _)
\* sep.join(l)
join(sep, l) ==
    IF l = <<>> THEN <<>>
    ELSE IF Len(l) = 1 THEN l[1]
    ELSE l[1] \o sep \o join(sep, Tail(l))

RECURSIVE keys(_)
\* list(dict([(v, None) for v in l]).keys()): a dict keeps the position of
\* the first insertion of each key
keys(l) ==
    IF l = <<>> THEN <<>>
    ELSE LET r == keys(SubSeq(l, 1, Len(l) - 1))
             x == l[Len(l)]
         IN  IF Contains(r, x) THEN r ELSE Append(r, x)

\* [v for v in l if v]
NonEmpty(v) == v # <<>>
Filled(l) == SelectSeq(l, NonEmpty)

-----------------------------------------------------------------------------
(* sftools/soql.py *)

\* SOQL.__init__ through the property setters, for the clauses SF.query uses
SOQL(select, limit, offset, preload) ==
    [SELECT |-> select, FROM |-> "Case", WHERE |-> "Case.Id != null",
     ORDER_BY |-> <<"Id">>, LIMIT |-> limit, OFFSET |-> offset,
     preload_fields |-> preload]

NoSOQL == SOQL(<<>>, 0, 0, "None")

-----------------------------------------------------------------------------
(* sftools/result.py *)

NoResult == [totalSize |-> 0, records |-> <<>>]

\* QueryResult.done, ._records, .totalSize
done(r) == Get(r, "done", TRUE)
records(r) == Get(r, "records", <<>>)
totalSize(r) == Get(r, "totalSize", 0)

\* __add__ with the operands' records in the wrong order and the flags and-ed
QueryResultAdd_swapped(self, other) ==
    [k \in DOMAIN other \cup {"done", "totalSize", "records"} |->
        CASE k = "done" -> done(self) /\ done(other)
          [] k = "totalSize" -> totalSize(self) + totalSize(other)
          [] k = "records" -> Get(other, "records", <<>>)
                                \o Get(self, "records", <<>>)
          [] OTHER -> other[k]]

\* QueryResult.__add__
QueryResultAdd(self, other) ==
    [k \in DOMAIN other \cup {"done", "totalSize", "records"} |->
        CASE k = "done" -> done(self) \/ done(other)
          [] k = "totalSize" -> totalSize(self) + totalSize(other)
          [] k = "records" -> Get(self, "records", <<>>)
                                \o Get(other, "records", <<>>)
          [] OTHER -> other[k]]

-----------------------------------------------------------------------------
(* The remote *)

\* rows o+1 .. o+n of the result set
Rows(o, n) == [i \in 1..n |-> o + i]

\* SELECT ... LIMIT l OFFSET o against a result set of m records
PageResponse(m, l, o) ==
    LET avail == Max(0, m - o)
        n == IF l > 0 THEN Min(l, avail) ELSE avail
    IN  [totalSize |-> n, done |-> TRUE, records |-> Rows(o, n)]

\* SELECT COUNT() ... against a result set of m records
CountResponse(m) == [totalSize |-> m, done |-> TRUE, records |-> <<>>]

Response(q, m) ==
    IF q.SELECT = <<"COUNT()">> THEN CountResponse(m)
    ELSE PageResponse(m, q.LIMIT, q.OFFSET)

-----------------------------------------------------------------------------
(* sftools/sf.py: SF.soql, SF.query_count, SF.query *)

PyBool(b) == IF b THEN "True" ELSE "False"

\* SF.soql(WHERE): the query built from a bare WHERE string
SFsoql(sfpreload) == SOQL(<<"Id">>, 0, 0, PyBool(sfpreload))

\* the count query keeping the caller's ordering
CountSoql_ordered(q) == [q EXCEPT !.SELECT = <<"COUNT()">>]

\* SF.query_count: the copy whose clause is sent
CountSoql(q) == [q EXCEPT !.SELECT = <<"COUNT()">>, !.ORDER_BY = <<>>]

\* lines 221-226
Preload(q, sfpreload) ==
    IF q.preload_fields = "None" THEN PyBool(sfpreload) ELSE q.preload_fields

ModeCap(q, sfpreload) ==
    IF Preload(q, sfpreload) = "True" THEN FIELDS_ALL_HARD_LIMIT
    ELSE QUERY_HARD_LIMIT

\* the ceiling with an explicit limit taken as it is
HardLimit_uncapped(q, sfpreload) ==
    IF q.LIMIT # 0 THEN q.LIMIT ELSE ModeCap(q, sfpreload)

\* lines 228-230
HardLimit(q, sfpreload) ==
    IF q.LIMIT # 0 THEN Min(q.LIMIT, ModeCap(q, sfpreload))
    ELSE ModeCap(q, sfpreload)

CappedCount(q, c) == IF q.LIMIT # 0 THEN Min(q.LIMIT, c) ELSE c

\* the bounds check with >= for >
TooManyResults_inclusive(c, hl) == c >= OFFSET_HARD_LIMIT + hl

\* line 233
TooManyResults(c, hl) == c > OFFSET_HARD_LIMIT + hl

\* the loop test with <= for <
LoopContinues_inclusive(r, c) == totalSize(r) <= c

\* the loop test stopping one record early
LoopContinues_short(r, c) == totalSize(r) < c - 1

\* line 239
LoopContinues(r, c) == totalSize(r) < c

\* lines 221-226 and 236: the query whose pages are fetched
PageSoql(q, sfpreload, hl) ==
    [q EXCEPT !.preload_fields = Preload(q, sfpreload),
              !.SELECT = IF Preload(q, sfpreload) = "True"
                         THEN <<"FIELDS(ALL)">> ELSE @,
              !.LIMIT = hl]

-----------------------------------------------------------------------------
(* State *)

\* queries a caller builds
CallerQueries ==
    {SOQL(<<"Id">>, l, o, p) :
        l \in Limits, o \in CallerOffsets, p \in {"None", "True", "False"}}

\* values a remote action other than a query returns
ActionResults == {CountResponse(m) : m \in {0, 1}}

Idle ==
    /\ op = "none" /\ caller = NoSOQL /\ soql = NoSOQL /\ sent = NoSOQL
    /\ qpc = "idle" /\ counted = 0 /\ count = 0 /\ hard_limit = 0
    /\ results = NoResult /\ wpc = "none" /\ after_refresh = FALSE
    /\ ret = NoResult /\ events = <<>> /\ attempts = <<>>
    /\ refreshed = "none" /\ outcome = "none" /\ err = "none"
    /\ offsets = <<>> /\ nfetch = 0 /\ nmerge = 0
    /\ allFull = TRUE

NoMerge ==
    /\ addA = NoResult /\ addB = NoResult /\ addR = NoResult
    /\ addDone = FALSE

\* no SOQL object has been constructed
NoObject ==
    [SELECT |-> <<>>, FROM |-> PyNone, WHERE |-> PyNone, ORDER_BY |-> <<>>,
     LIMIT |-> 0, OFFSET |-> 0]

\* SOQL.clause has not been read
NoClause == [status |-> "none", text |-> <<>>]

NoBuilder ==
    /\ sq = NoObject /\ sqprev = NoObject /\ sqop = "none"
    /\ sqarg = PyNone /\ sqerr = "none" /\ sqtext = NoClause

NoWhere ==
    /\ wfn = "none" /\ wname = PyNone /\ wargs = <<>> /\ wout = PyNone

\* SF.sftype's cache is empty
NoTypes ==
    /\ tcached = FALSE /\ tnewer = 0 /\ tolder = 0 /\ tproxy = 0
    /\ tmade = 0 /\ tlookups = 0 /\ tgot = 0 /\ tfirst = 0
    /\ tsession = 0
    /\ tobjs = <<>> /\ tnobj = 0 /\ theld = 0 /\ tobj = 0

\* no SOQL object is held
NoCopy ==
    /\ heap = [lists |-> <<>>, objs |-> <<>>] /\ hop = "none"
    /\ hpc = "none" /\ hbefore = <<>> /\ htarget = 0 /\ hnops = 0

\* the callers of a type proxy
Callers == 1..2

EmptyRec == <<>>

NoArg == [kind |-> "none", rec |-> EmptyRec, id |-> ""]

NoRes == [status |-> "none", obj |-> 0, err |-> "none"]

NoBefore == [cache |-> <<>>, recs |-> <<>>]

\* a type proxy that has materialized nothing
NoCache ==
    /\ sfobjects = <<>> /\ orecord = <<>>
    /\ cpc = [c \in Callers |-> "idle"]
    /\ carg = [c \in Callers |-> NoArg]
    /\ cobj = [c \in Callers |-> 0]
    /\ cres = [c \in Callers |-> NoRes]
    /\ cbefore = [c \in Callers |-> NoBefore]
    /\ nremote = [c \in Callers |-> 0]
    /\ tinfos = FALSE /\ raced = {} /\ ncalls = 0

NoOther == NoCopy /\ NoCache

Init ==
    /\ preload_fields \in BOOLEAN
    /\ Idle
    /\ NoMerge
    /\ NoBuilder /\ NoWhere /\ NoTypes /\ NoOther

-----------------------------------------------------------------------------
(* The retry wrappers: SF._sf_call_and_refresh and SFType's wrapper *)

\* entry of a wrapped call
Wrapped ==
    /\ wpc' = "first"
    /\ ret' = NoResult
    /\ events' = <<>>
    /\ attempts' = <<>>
    /\ refreshed' = "none"

\* an exception leaves the operation in progress
Raise(e) ==
    /\ outcome' = "raised"
    /\ err' = e
    /\ wpc' = "none"

\* the wrapped action returned value v
Return(v) ==
    /\ ret' = v
    /\ IF op = "query"
       THEN wpc' = "returned" /\ UNCHANGED <<outcome, err>>
       ELSE wpc' = "none" /\ outcome' = "returned" /\ UNCHANGED err

\* a wrapper that treats every exception of func() as an expired session
Invoke_catchall(onExpired) ==
    /\ events' = Append(events, "action")
    /\ \E out \in {"ok", "expired", "error"} :
        /\ attempts' = Append(attempts, out)
        /\ CASE out = "ok" ->
                  \E m \in Totals :
                    \E v \in (IF op = "query" THEN {Response(sent, m)}
                                 ELSE ActionResults) : Return(v)
             [] out \in {"expired", "error"} ->
                  /\ onExpired
                  /\ UNCHANGED ret

\* what func() answers: a remote result or an exception
Invoke(onExpired) ==
    /\ events' = Append(events, "action")
    /\ \E out \in {"ok", "expired", "error"} :
        /\ attempts' = Append(attempts, out)
        /\ CASE out = "ok" ->
                  \E m \in Totals :
                    \E v \in (IF op = "query" THEN {Response(sent, m)}
                                 ELSE ActionResults) : Return(v)
             [] out = "expired" ->
                  /\ onExpired
                  /\ UNCHANGED ret
             [] out = "error" ->
                  /\ Raise("TransportError")
                  /\ UNCHANGED ret

\* the refresh failure raised instead of the original error
RefreshFailure_masking(e, failure) == failure

\* the exception that leaves the wrapper when the refresh raised 'failure'
RefreshFailure(e, failure) == IF failure = "ValueError" THEN e ELSE failure

\* SF._sf_call_and_refresh line 104, SFType wrapper line 78
CallFirst ==
    /\ wpc = "first"
    /\ Invoke(wpc' = "refresh" /\ UNCHANGED <<outcome, err>>)
    /\ UNCHANGED <<preload_fields, op, caller, soql,
                   sent, qpc, counted, count, hard_limit, results,
                   after_refresh, refreshed, offsets, nfetch, nmerge,
                   allFull, pureVars>>

\* SF._sf_call_and_refresh lines 105-109 with SF.refresh_oauth
Refresh ==
    /\ wpc = "refresh"
    /\ op \in {"query", "call"}
    /\ events' = Append(events, "refresh")
    /\ \E r \in {"ok", "ValueError", "HTTPError"} :
        /\ refreshed' = r
        /\ IF r = "ok"
           THEN /\ wpc' = IF after_refresh THEN "after" ELSE "retry"
                /\ UNCHANGED <<outcome, err>>
           ELSE Raise(RefreshFailure("SalesforceExpiredSession", r))
    /\ UNCHANGED <<preload_fields, op, caller, soql, sent, qpc,
                   counted, count, hard_limit, results, after_refresh, ret,
                   attempts, offsets, nfetch, nmerge, allFull,
                   pureVars>>

\* SFType wrapper lines 79-84: refresh, then copy the client's session id to
\* the type handle.  Reading SF.session_id goes through SF.__getattr__, which
\* may first issue the describe call of SF._salesforce_objectnames (a wrapped
\* call of its own), so the copy can fail as well; a ValueError from either
\* step is caught, any other exception leaves the wrapper.
TypeRefresh ==
    /\ wpc = "refresh"
    /\ op = "type"
    /\ events' = Append(events, "refresh")
    /\ \E r \in {"ok", "ValueError", "HTTPError"} :
        /\ refreshed' = r
        /\ IF r = "ok"
           THEN \E copied \in {"ok", "ValueError", "TransportError"} :
                  IF copied = "ok"
                  THEN wpc' = "retry" /\ UNCHANGED <<outcome, err>>
                  ELSE Raise(RefreshFailure("SalesforceExpiredSession",
                                            copied))
           ELSE Raise(RefreshFailure("SalesforceExpiredSession", r))
    /\ UNCHANGED <<preload_fields, op, caller, soql, sent, qpc, counted,
                   count, hard_limit, results, after_refresh, ret, attempts,
                   offsets, nfetch, nmerge, allFull, pureVars>>

\* SF._sf_call_and_refresh lines 110-111
AfterRefresh ==
    /\ wpc = "after"
    /\ events' = Append(events, "afterRefresh")
    /\ \E ok \in BOOLEAN :
        IF ok THEN wpc' = "retry" /\ UNCHANGED <<outcome, err>>
        ELSE Raise("CallbackError")
    /\ UNCHANGED <<preload_fields, op, caller, soql,
                   sent, qpc, counted, count, hard_limit, results,
                   after_refresh, ret, attempts, refreshed, offsets,
                   nfetch, nmerge, allFull, pureVars>>

\* a retry that refreshes again when the session is still expired
CallRetry_again ==
    /\ wpc = "retry"
    /\ Invoke(wpc' = "refresh" /\ UNCHANGED <<outcome, err>>)
    /\ UNCHANGED <<preload_fields, op, caller, soql,
                   sent, qpc, counted, count, hard_limit, results,
                   after_refresh, refreshed, offsets, nfetch, nmerge,
                   allFull, pureVars>>

\* SF._sf_call_and_refresh line 112, SFType wrapper line 85
CallRetry ==
    /\ wpc = "retry"
    /\ Invoke(Raise("SalesforceExpiredSession"))
    /\ UNCHANGED <<preload_fields, op, caller, soql,
                   sent, qpc, counted, count, hard_limit, results,
                   after_refresh, refreshed, offsets, nfetch, nmerge,
                   allFull, pureVars>>

\* a caller runs a remote action through SF._sf_call_and_refresh
StartCall ==
    /\ op = "none"
    /\ op' = "call"
    /\ after_refresh' \in BOOLEAN
    /\ Wrapped
    /\ UNCHANGED <<preload_fields, caller, soql,
                   sent, qpc, counted, count, hard_limit, results, outcome,
                   err, offsets, nfetch, nmerge, allFull, pureVars>>

\* a caller runs a remote action of a type handle (SFType wrapper)
StartTypeCall ==
    /\ op = "none"
    /\ op' = "type"
    /\ Wrapped
    /\ UNCHANGED <<preload_fields, caller, soql,
                   sent, qpc, counted, count, hard_limit, results,
                   after_refresh, outcome, err, offsets, nfetch,
                   nmerge, allFull, pureVars>>

-----------------------------------------------------------------------------
(* SF.query *)

\* _query(soql): the clause of q goes to the remote through the wrapper
Fetch(q) ==
    /\ sent' = q
    /\ Wrapped

\* SF.query lines 210-216 and SF.query_count: copy, then the count query
StartQuery ==
    /\ op = "none"
    /\ \E q \in CallerQueries \cup {SFsoql(preload_fields)} :
        /\ caller' = q
        /\ soql' = q
        /\ Fetch(CountSoql(q))
    /\ op' = "query"
    /\ qpc' = "count"
    /\ UNCHANGED <<preload_fields, counted, count,
                   hard_limit, results, after_refresh, outcome, err, offsets, nfetch, nmerge, allFull, pureVars>>

\* SF.query lines 216-238: bounds check, then the fetch of page 0
QueryCounted ==
    /\ op = "query" /\ qpc = "count" /\ wpc = "returned"
    /\ counted' = totalSize(ret)
    /\ count' = CappedCount(soql, totalSize(ret))
    /\ hard_limit' = HardLimit(soql, preload_fields)
    /\ IF TooManyResults(count', hard_limit')
       THEN /\ Raise("TooManyResults")
            /\ soql' = [soql EXCEPT
                          !.preload_fields = Preload(soql, preload_fields),
                          !.SELECT = IF Preload(soql, preload_fields) = "True"
                                     THEN <<"FIELDS(ALL)">> ELSE @]
            /\ UNCHANGED <<sent, qpc, ret, events, attempts, refreshed,
                           offsets, nfetch>>
       ELSE /\ soql' = PageSoql(soql, preload_fields, hard_limit')
            /\ Fetch(soql')
            /\ qpc' = "page"
            /\ offsets' = Log(offsets, soql'.OFFSET)
            /\ nfetch' = Sat(nfetch)
            /\ UNCHANGED <<outcome, err>>
    /\ UNCHANGED <<preload_fields, op, caller,
                   results, after_refresh, nmerge, allFull, pureVars>>

\* SF.query lines 239-242 on the accumulated result r
Loop(r) ==
    /\ results' = r
    /\ IF LoopContinues(r, count)
       THEN /\ soql' = [soql EXCEPT !.OFFSET = totalSize(r)]
            /\ Fetch(soql')
            /\ qpc' = "loop"
            /\ offsets' = Log(offsets, soql'.OFFSET)
            /\ nfetch' = Sat(nfetch)
            /\ UNCHANGED <<outcome, err>>
       ELSE /\ outcome' = "returned"
            /\ wpc' = "none"
            /\ UNCHANGED <<soql, sent, qpc, ret, events, attempts, refreshed,
                           err, offsets, nfetch>>

\* SF.query line 238: page 0 arrived
QueryFirstPage ==
    /\ op = "query" /\ qpc = "page" /\ wpc = "returned"
    /\ Loop(ret)
    /\ allFull' = (allFull /\ totalSize(ret) = sent.LIMIT)
    /\ UNCHANGED <<preload_fields, op, caller,
                   counted, count, hard_limit, after_refresh, nmerge,
                   pureVars>>

\* SF.query line 241: a further page arrived and is merged
QueryNextPage ==
    /\ op = "query" /\ qpc = "loop" /\ wpc = "returned"
    /\ Loop(QueryResultAdd(results, ret))
    /\ nmerge' = Sat(nmerge)
    /\ allFull' = (allFull /\ totalSize(ret) = sent.LIMIT)
    /\ UNCHANGED <<preload_fields, op, caller,
                   counted, count, hard_limit, after_refresh, pureVars>>

\* the caller takes the result or the exception of the operation
Finish ==
    /\ outcome # "none"
    /\ op' = "none" /\ caller' = NoSOQL /\ soql' = NoSOQL /\ sent' = NoSOQL
    /\ qpc' = "idle" /\ counted' = 0 /\ count' = 0 /\ hard_limit' = 0
    /\ results' = NoResult /\ wpc' = "none" /\ after_refresh' = FALSE
    /\ ret' = NoResult /\ events' = <<>> /\ attempts' = <<>>
    /\ refreshed' = "none" /\ outcome' = "none" /\ err' = "none"
    /\ offsets' = <<>> /\ nfetch' = 0 /\ nmerge' = 0
    /\ allFull' = TRUE
    /\ UNCHANGED <<preload_fields, pureVars>>

Step ==
    \/ StartQuery \/ QueryCounted \/ QueryFirstPage \/ QueryNextPage
    \/ StartCall \/ StartTypeCall
    \/ CallFirst \/ Refresh \/ TypeRefresh \/ AfterRefresh \/ CallRetry

Next == Step \/ Finish

Spec == Init /\ [][Next]_vars

\* the program keeps running: no step of an operation waits for ever
FairSpec == Spec /\ WF_vars(Step)

TypeOK ==
    /\ op \in {"none", "query", "call", "type"}
    /\ qpc \in {"idle", "count", "page", "loop"}
    /\ wpc \in {"none", "first", "refresh", "after", "retry", "returned"}
    /\ outcome \in {"none", "returned", "raised"}

-----------------------------------------------------------------------------
(* QueryResult.__add__ on its own: any two payloads are merged, and the    *)
(* result is merged with further pages as 'results += page' does.          *)

MaxRecords == 2
MaxTotal == 10

RecordLists == {<<>>, <<"r1">>, <<"r1", "r2">>, <<"r3", "r4">>, <<"r2", "r1">>}

Payloads ==
    {[totalSize |-> t, done |-> d, records |-> rs] :
        t \in {0, 2, 10}, d \in BOOLEAN, rs \in RecordLists}
    \cup {[totalSize |-> t, records |-> rs] :
        t \in {0, 10}, rs \in RecordLists}
    \cup {[totalSize |-> 10, done |-> d] : d \in BOOLEAN}

InitAdd ==
    /\ preload_fields = FALSE
    /\ Idle
    /\ addA \in Payloads
    /\ addB \in Payloads
    /\ addR = NoResult
    /\ addDone = FALSE
    /\ NoBuilder /\ NoWhere /\ NoTypes /\ NoOther

\* A + B
Merge ==
    /\ ~addDone
    /\ addR' = QueryResultAdd(addA, addB)
    /\ addDone' = TRUE
    /\ UNCHANGED <<addA, addB, queryVars, otherVars, soqlVars, whereVars, typeVars>>

\* the sum becomes the left operand of the next merge
Accumulate ==
    /\ addDone
    /\ Len(records(addR)) <= MaxRecords
    /\ totalSize(addR) <= MaxTotal
    /\ addA' = addR
    /\ addB' \in Payloads
    /\ addDone' = FALSE
    /\ UNCHANGED <<addR, queryVars, otherVars, soqlVars, whereVars, typeVars>>

NextAdd == Merge \/ Accumulate

SpecAdd == InitAdd /\ [][NextAdd]_vars

-----------------------------------------------------------------------------
(* The SOQL query builder (sftools/soql.py) on its own: an object is        *)
(* constructed and then changed through its setters; SOQL.clause renders it. *)

\* a setter returns the object it leaves and the exception it raised
Done(o) == [obj |-> o, err |-> "none"]
Failed(o, e) == [obj |-> o, err |-> e]

\* a list_from_csv that keeps repeated names
list_from_csv_dups(value, default) ==
    IF ~Truthy(value)
    THEN IF Truthy(default) THEN <<default.v>> ELSE <<>>
    ELSE LET l == IF value.t # "list"
                  THEN [i \in 1..Len(split(value.v)) |->
                            strip(split(value.v)[i])]
                  ELSE value.v
         IN  Filled(l)

\* SOQL.list_from_csv
list_from_csv(value, default) ==
    IF ~Truthy(value)
    THEN IF Truthy(default) THEN <<default.v>> ELSE <<>>
    ELSE LET l == IF value.t # "list"
                  THEN [i \in 1..Len(split(value.v)) |->
                            strip(split(value.v)[i])]
                  ELSE value.v
         IN  keys(Filled(l))

\* SOQL.SELECT setter
SetSELECT(o, value) == Done([o EXCEPT !.SELECT = list_from_csv(value, PyNone)])

\* SOQL.SELECT_AND: self.SELECT += ... reads the list, extends it and
\* assigns it through the setter
SELECT_AND(o, value) ==
    SetSELECT(o, List(o.SELECT \o list_from_csv(value, PyNone)))

\* a FROM setter that assigns before it validates
SetFROM_late(o, value) ==
    IF Truthy(value) /\ Contains(value.v, ",")
    THEN Failed([o EXCEPT !.FROM = value], "ValueError")
    ELSE Done([o EXCEPT !.FROM = value])

\* SOQL.FROM setter
SetFROM(o, value) ==
    IF Truthy(value) /\ Contains(value.v, ",")
    THEN Failed(o, "ValueError")
    ELSE Done([o EXCEPT !.FROM = value])

\* SOQL.WHERE setter
SetWHERE(o, value) == Done([o EXCEPT !.WHERE = value])

\* SOQL.ORDER_BY setter
SetORDER_BY(o, value) ==
    Done([o EXCEPT !.ORDER_BY = list_from_csv(value, Str(<<"Id">>))])

\* SOQL.ORDER_BY deleter
DelORDER_BY(o) == Done([o EXCEPT !.ORDER_BY = <<>>])

\* SOQL.ORDER_BY_AND
ORDER_BY_AND(o, value) ==
    SetORDER_BY(o, List(o.ORDER_BY \o list_from_csv(value, PyNone)))

\* int(value or 0)
IntOrZero(value) == IF Truthy(value) THEN value.n ELSE 0

\* SOQL.LIMIT setter
SetLIMIT(o, value) == Done([o EXCEPT !.LIMIT = IntOrZero(value)])

\* SOQL.OFFSET setter
SetOFFSET(o, value) == Done([o EXCEPT !.OFFSET = IntOrZero(value)])

\* SOQL.__init__: the setters in the order of the assignments; the
\* exception of a setter leaves no object
SOQLInit(a) ==
    LET o1 == SetSELECT(NoObject, a.SELECT).obj
        r2 == SetFROM(o1, a.FROM)
        o3 == SetWHERE(r2.obj, a.WHERE).obj
        o4 == SetORDER_BY(o3, a.ORDER_BY).obj
        o5 == SetLIMIT(o4, a.LIMIT).obj
        o6 == SetOFFSET(o5, a.OFFSET).obj
    IN  IF r2.err # "none" THEN Failed(NoObject, r2.err) ELSE Done(o6)

\* what reading SOQL.clause gives: the text, or the exception
Text(q) == [status |-> "text", text |-> q]
NoText(e) == [status |-> e, text |-> <<>>]

\* the clauses SOQL.clause appends to 'SELECT ... FROM ...'
Clauses(o, ordered) ==
    LET q1 == IF Truthy(o.WHERE)
              THEN <<" ", "WHERE", " ">> \o o.WHERE.v ELSE <<>>
        q2 == IF ordered
              THEN <<" ", "ORDER BY", " ">> \o join(<<",">>, o.ORDER_BY)
              ELSE <<>>
        q3 == IF o.LIMIT # 0
              THEN <<" ", "LIMIT", " ", ToString(o.LIMIT)>> ELSE <<>>
        q4 == IF o.OFFSET # 0
              THEN <<" ", "OFFSET", " ", ToString(o.OFFSET)>> ELSE <<>>
    IN  q1 \o q2 \o q3 \o q4

\* a clause that renders without a source
clause_nofrom(o) ==
    IF o.SELECT = <<>> THEN NoText("ValueError")
    ELSE Text(<<"SELECT", " ">> \o join(<<",">>, o.SELECT)
              \o <<" ", "FROM", " ">> \o PyStr(o.FROM)
              \o Clauses(o, o.ORDER_BY # <<>>))

\* a clause that appends ORDER BY whatever the ordering
clause_emptyorder(o) ==
    IF o.SELECT = <<>> THEN NoText("ValueError")
    ELSE IF ~Truthy(o.FROM) THEN NoText("ValueError")
    ELSE Text(<<"SELECT", " ">> \o join(<<",">>, o.SELECT)
              \o <<" ", "FROM", " ">> \o o.FROM.v
              \o Clauses(o, TRUE))

\* SOQL.clause
clause(o) ==
    IF o.SELECT = <<>> THEN NoText("ValueError")
    ELSE IF ~Truthy(o.FROM) THEN NoText("ValueError")
    ELSE Text(<<"SELECT", " ">> \o join(<<",">>, o.SELECT)
              \o <<" ", "FROM", " ">> \o o.FROM.v
              \o Clauses(o, o.ORDER_BY # <<>>))

\* values a caller gives the builder
SelectInputs ==
    {PyNone,
     Str(<<"A", ",", " ", "B", ",", ",", "A">>),
     List(<<<<"A">>, <<"B">>, <<"A">>>>),
     List(<<<<"a">>>>)}

OrderInputs ==
    {PyNone, List(<<>>), Str(<<",">>),
     List(<<<<"A">>, <<"Id">>, <<"A">>>>)}

FromInputs ==
    {PyNone, Str(<<>>), Str(<<"Case">>), Str(<<"Case", ",", "Account">>)}

WhereInputs == {PyNone, Str(<<>>), Str(<<"IsClosed", " ", "=", " ", "FALSE">>)}

IntInputs == {PyNone, PyInt(0), PyInt(3), PyInt(-1)}

InitInputs ==
    [SELECT : SelectInputs, FROM : FromInputs, WHERE : WhereInputs,
     ORDER_BY : OrderInputs, LIMIT : IntInputs, OFFSET : IntInputs]

InitSoql ==
    /\ preload_fields = FALSE
    /\ Idle
    /\ NoMerge
    /\ NoBuilder /\ NoWhere /\ NoTypes /\ NoOther

\* an object exists
Built == sqop # "none" /\ ~(sqop = "init" /\ sqerr # "none")

\* operation 'name' with argument 'arg' ended as r
Applied(name, arg, r) ==
    /\ sqprev' = sq
    /\ sqop' = name
    /\ sqarg' = arg
    /\ sq' = r.obj
    /\ sqerr' = r.err
    /\ sqtext' = NoClause
    /\ UNCHANGED <<queryVars, otherVars, addVars, whereVars, typeVars>>

\* SOQL(SELECT=..., FROM=..., ...)
SoqlNew ==
    /\ sqop = "none"
    /\ \E a \in InitInputs : Applied("init", a, SOQLInit(a))

SoqlSELECT ==
    /\ Built
    /\ \E v \in SelectInputs : Applied("SELECT", v, SetSELECT(sq, v))

SoqlSELECT_AND ==
    /\ Built
    /\ \E v \in SelectInputs : Applied("SELECT_AND", v, SELECT_AND(sq, v))

SoqlFROM ==
    /\ Built
    /\ \E v \in FromInputs : Applied("FROM", v, SetFROM(sq, v))

SoqlWHERE ==
    /\ Built
    /\ \E v \in WhereInputs : Applied("WHERE", v, SetWHERE(sq, v))

SoqlORDER_BY ==
    /\ Built
    /\ \E v \in OrderInputs : Applied("ORDER_BY", v, SetORDER_BY(sq, v))

SoqlDelORDER_BY ==
    /\ Built
    /\ Applied("del ORDER_BY", PyNone, DelORDER_BY(sq))

SoqlORDER_BY_AND ==
    /\ Built
    /\ \E v \in OrderInputs : Applied("ORDER_BY_AND", v, ORDER_BY_AND(sq, v))

SoqlLIMIT ==
    /\ Built
    /\ \E v \in IntInputs : Applied("LIMIT", v, SetLIMIT(sq, v))

SoqlOFFSET ==
    /\ Built
    /\ \E v \in IntInputs : Applied("OFFSET", v, SetOFFSET(sq, v))

\* the caller reads SOQL.clause
SoqlClause ==
    /\ Built
    /\ sqtext = NoClause
    /\ sqtext' = clause(sq)
    /\ UNCHANGED <<sq, sqprev, sqop, sqarg, sqerr>>
    /\ UNCHANGED <<queryVars, otherVars, addVars, whereVars, typeVars>>

NextSoql ==
    \/ SoqlNew \/ SoqlSELECT \/ SoqlSELECT_AND \/ SoqlFROM \/ SoqlWHERE
    \/ SoqlORDER_BY \/ SoqlDelORDER_BY \/ SoqlORDER_BY_AND
    \/ SoqlLIMIT \/ SoqlOFFSET \/ SoqlClause

SpecSoql == InitSoql /\ [][NextSoql]_vars

-----------------------------------------------------------------------------
(* The filter helpers: WhereUtil (sftools/soql.py) and the module functions *)
(* of sftools/type.py.  Each is a function of its arguments; a call is made *)
(* with a name and with up to MaxArgs further arguments.                    *)

MaxArgs == 3

Names == {PyNone, Str(<<>>), Str(<<"Id">>)}

Values == {PyNone, Str(<<>>), Str(<<"a">>), Str(<<"b">>), Str(<<"X='1'">>)}

ArgLists == UNION {[1..n -> Values] : n \in 0..MaxArgs}

\* [a for a in args if a]
Kept(args) == SelectSeq(args, Truthy)

\* [f'{left}{a}{right}' for a in l]
Wrap(left, l, right) == [i \in 1..Len(l) |-> left \o l[i] \o right]

\* the texts of a sequence of strs
Texts(l) == [i \in 1..Len(l) |-> l[i].v]

\* WhereUtil.IN
WhereUtil_IN(name, args) ==
    IF ~Truthy(name) THEN PyNone
    ELSE LET inlist == Wrap(<<"'">>, Texts(Kept(args)), <<"'">>)
         IN  IF Len(inlist) = 0 THEN PyNone
             ELSE Str(name.v \o <<" ", "IN", " ", "(">>
                      \o join(<<",">>, inlist) \o <<")">>)

\* WhereUtil.LIKE
WhereUtil_LIKE(name, value) ==
    IF ~Truthy(name) THEN PyNone
    ELSE IF ~Truthy(value) THEN PyNone
    ELSE Str(name.v \o <<" ", "LIKE", " ", "'", "%">> \o value.v
             \o <<"%", "'">>)

\* a JOIN that keeps the empty fragments
WhereUtil_JOIN_unfiltered(action, args) ==
    Str(join(<<" ", action, " ">>,
             Wrap(<<"(">>, [i \in 1..Len(args) |-> PyStr(args[i])], <<")">>)))

\* WhereUtil.JOIN
WhereUtil_JOIN(action, args) ==
    Str(join(<<" ", action, " ">>, Wrap(<<"(">>, Texts(Kept(args)), <<")">>)))

\* WhereUtil.AND
WhereUtil_AND(args) == WhereUtil_JOIN("AND", args)

\* WhereUtil.OR
WhereUtil_OR(args) == WhereUtil_JOIN("OR", args)

\* the orders in which a set is iterated
Orders(S) ==
    {p \in [1..Cardinality(S) -> S] : \A x \in S : \E i \in DOMAIN p : p[i] = x}

\* type.py JOIN: the texts it can return; the elements go through a set, so
\* repeated ones are dropped and the order is that of the set's iteration
JOIN(separator, left, right, args) ==
    LET stripped == [i \in 1..Len(Kept(args)) |-> strip(PyStr(Kept(args)[i]))]
        wrapped == {left \o stripped[i] \o right :
                        i \in {k \in 1..Len(stripped) : stripped[k] # <<>>}}
    IN  {join(separator, p) : p \in Orders(wrapped)}

\* type.py WHERE_AND
WHERE_AND(args) == JOIN(<<" ", "AND", " ">>, <<"(">>, <<")">>, args)

\* type.py WHERE_OR
WHERE_OR(args) == JOIN(<<" ", "OR", " ">>, <<"(">>, <<")">>, args)

\* type.py WHERE_IN
WHERE_IN(name, args) ==
    {IF inlist = <<>> THEN <<>>
     ELSE PyStr(name) \o <<" ", "IN", " ", "(">> \o inlist \o <<")">> :
        inlist \in JOIN(<<",">>, <<"'">>, <<"'">>, args)}

\* type.py WHERE_LIKE
WHERE_LIKE(name, value) ==
    PyStr(name) \o <<" ", "LIKE", " ", "'", "%">> \o PyStr(value)
    \o <<"%", "'">>

InitWhere ==
    /\ preload_fields = FALSE
    /\ Idle
    /\ NoMerge
    /\ NoBuilder /\ NoTypes /\ NoOther
    /\ wfn = "none"
    /\ wname \in Names
    /\ wargs \in ArgLists
    /\ wout = PyNone

\* function fn is called with the name and the arguments and returns out
Called(fn, out) ==
    /\ wfn = "none"
    /\ wfn' = fn
    /\ wout' = out
    /\ UNCHANGED <<wname, wargs, queryVars, otherVars, addVars, soqlVars, typeVars>>

WhereIN == Called("WhereUtil.IN", WhereUtil_IN(wname, wargs))

WhereLIKE ==
    /\ Len(wargs) = 1
    /\ Called("WhereUtil.LIKE", WhereUtil_LIKE(wname, wargs[1]))

WhereAND == Called("WhereUtil.AND", WhereUtil_AND(wargs))

WhereOR == Called("WhereUtil.OR", WhereUtil_OR(wargs))

TypeWhereIN == \E text \in WHERE_IN(wname, wargs) : Called("WHERE_IN", Str(text))

TypeWhereLIKE ==
    /\ Len(wargs) = 1
    /\ Called("WHERE_LIKE", Str(WHERE_LIKE(wname, wargs[1])))

TypeWhereAND == \E text \in WHERE_AND(wargs) : Called("WHERE_AND", Str(text))

TypeWhereOR == \E text \in WHERE_OR(wargs) : Called("WHERE_OR", Str(text))

NextWhere ==
    \/ WhereIN \/ WhereLIKE \/ WhereAND \/ WhereOR
    \/ TypeWhereIN \/ TypeWhereLIKE \/ TypeWhereAND \/ TypeWhereOR

SpecWhere == InitWhere /\ [][NextWhere]_vars

-----------------------------------------------------------------------------
(* SF.sftype (sftools/sf.py): the method is wrapped in functools.lru_cache, *)
(* one cache for all clients, keyed by (client, type name), that holds the  *)
(* LRU_MAXSIZE most recently used entries.  The model follows the entry of  *)
(* one key (client, name) and counts the entries of the other keys by       *)
(* whether they were used after it or before it.                            *)

\* maxsize of functools.lru_cache when the decorator is given none
LRU_MAXSIZE == 128

\* other (client, type name) keys that are resolved
MaxOtherKeys == 128
\* SFType instances counted for the key
MaxMade == 2
\* Salesforce instances counted for the client
MaxSessions == 1
\* SFObjects made for the followed identifier
MaxObjects == 2

InitTypes ==
    /\ preload_fields = FALSE
    /\ Idle
    /\ NoMerge
    /\ NoBuilder /\ NoWhere /\ NoTypes /\ NoOther

\* entries of other keys in the cache
Others == tnewer + tolder

\* sftype(name) of the client: a hit returns the cached instance; a miss
\* runs _salesforce_attr(name) through the retry wrapper and, when that
\* returns, makes an SFType, which is stored (the least recently used entry
\* leaves a full cache); an exception of the lookup stores nothing
TypeResolve ==
    /\ IF tcached
       THEN /\ tgot' = tproxy
            /\ tfirst' = IF tfirst = 0 THEN tproxy ELSE tfirst
            /\ tnewer' = 0
            /\ tolder' = Others
            /\ UNCHANGED <<tcached, tproxy, tmade, tlookups>>
       ELSE /\ tmade < MaxMade
            /\ \E found \in BOOLEAN :
                /\ tlookups' = IF tfirst # 0 THEN 1 ELSE tlookups
                /\ IF found
                   THEN /\ tmade' = tmade + 1
                        /\ tproxy' = tmade + 1
                        /\ tgot' = tmade + 1
                        /\ tfirst' = IF tfirst = 0 THEN tmade + 1 ELSE tfirst
                        /\ tcached' = TRUE
                        /\ tnewer' = 0
                        /\ tolder' = Min(Others, LRU_MAXSIZE - 1)
                   ELSE /\ tgot' = 0
                        /\ UNCHANGED <<tcached, tproxy, tmade, tfirst,
                                       tnewer, tolder>>
    /\ tobjs' = IF tmade' > tmade THEN Append(tobjs, 0) ELSE tobjs
    /\ UNCHANGED <<tnobj, theld, tobj>>
    /\ UNCHANGED <<tsession, queryVars, otherVars, addVars, soqlVars, whereVars>>

\* sftype of another key: a hit on an entry used before the followed one, or
\* a miss whose lookup returned (a hit on an entry used after it and a miss
\* whose lookup raised leave the cache as it is)
TypeResolveOther ==
    /\ \/ /\ tcached /\ tolder > 0
          /\ tolder' = tolder - 1
          /\ tnewer' = tnewer + 1
          /\ UNCHANGED <<tcached, tproxy>>
       \/ /\ Others < MaxOtherKeys
          /\ IF Others + (IF tcached THEN 1 ELSE 0) < LRU_MAXSIZE
             THEN /\ tnewer' = tnewer + 1
                  /\ UNCHANGED <<tolder, tcached, tproxy>>
             ELSE IF tcached /\ tolder = 0
             THEN /\ tcached' = FALSE
                  /\ tproxy' = 0
                  /\ tnewer' = tnewer + 1
                  /\ UNCHANGED tolder
             ELSE IF tcached
             THEN /\ tolder' = tolder - 1
                  /\ tnewer' = tnewer + 1
                  /\ UNCHANGED <<tcached, tproxy>>
             ELSE UNCHANGED <<tnewer, tolder, tcached, tproxy>>
    /\ UNCHANGED <<tmade, tlookups, tgot, tfirst, tsession, tobjs, tnobj,
                   theld, tobj>>
    /\ UNCHANGED <<queryVars, otherVars, addVars, soqlVars, whereVars>>

\* SF.refresh_oauth between two resolves: the client's Salesforce instance
\* is dropped and made again; the cache is not touched
TypeSessionRefresh ==
    /\ tsession < MaxSessions
    /\ tsession' = tsession + 1
    /\ UNCHANGED <<tcached, tnewer, tolder, tproxy, tmade, tlookups, tgot,
                   tfirst, tobjs, tnobj, theld, tobj>>
    /\ UNCHANGED <<queryVars, otherVars, addVars, soqlVars, whereVars>>

\* sftype(name)(record) for a record with the followed identifier, on the
\* instance the last sftype(name) returned: _record_to_sfobject answers from
\* that instance's _sfobjects or makes an SFObject and stores it there
TypeMaterialize ==
    /\ tgot # 0
    /\ IF tobjs[tgot] # 0
       THEN /\ tobj' = tobjs[tgot]
            /\ UNCHANGED <<tobjs, tnobj>>
       ELSE /\ tnobj < MaxObjects
            /\ tnobj' = tnobj + 1
            /\ tobjs' = [tobjs EXCEPT ![tgot] = tnobj + 1]
            /\ tobj' = tnobj + 1
    /\ theld' = IF theld = 0 THEN tobj' ELSE theld
    /\ UNCHANGED <<tcached, tnewer, tolder, tproxy, tmade, tlookups, tgot,
                   tfirst, tsession>>
    /\ UNCHANGED <<queryVars, otherVars, addVars, soqlVars, whereVars>>

\* sftype(name)(id) for the followed identifier, on the instance the last
\* sftype(name) returned: the cached SFObject, or nothing (None or an
\* exception) when that instance's _sfobjects does not hold the identifier
TypeLookupById ==
    /\ tgot # 0
    /\ tobj' = tobjs[tgot]
    /\ UNCHANGED <<tcached, tnewer, tolder, tproxy, tmade, tlookups, tgot,
                   tfirst, tsession, tobjs, tnobj, theld>>
    /\ UNCHANGED <<queryVars, otherVars, addVars, soqlVars, whereVars>>

NextTypes ==
    \/ TypeResolve \/ TypeResolveOther \/ TypeSessionRefresh
    \/ TypeMaterialize \/ TypeLookupById

SpecTypes == InitTypes /\ [][NextTypes]_vars


-----------------------------------------------------------------------------
(* copy(soql) and the list attributes of a SOQL object                       *)
(*                                                                           *)
(* A SOQL object holds its projection and its ordering as references to list *)
(* objects.  copy.copy makes a new SOQL object whose attributes refer to the *)
(* same list objects; a setter binds the attribute to a new list, '+=' on a  *)
(* list extends the list object itself.                                      *)

MaxCopyOps == 2

\* the SOQL object i with its lists read through their references
Deref(h, i) ==
    [h.objs[i] EXCEPT !.SELECT = h.lists[@], !.ORDER_BY = h.lists[@]]

Contents(h) == [i \in 1..Len(h.objs) |-> Deref(h, i)]

\* SOQL(...): a new object with a list of its own for SELECT and ORDER_BY
NewSoql(a, preload) ==
    LET o == SOQLInit(a).obj
    IN  [lists |-> <<o.SELECT, o.ORDER_BY>>,
         objs |-> <<[SELECT |-> 1, ORDER_BY |-> 2, FROM |-> o.FROM,
                     WHERE |-> o.WHERE, LIMIT |-> o.LIMIT,
                     OFFSET |-> o.OFFSET, preload_fields |-> preload]>>]

\* copy(soql): a new object with the attribute values of object i
SoqlCopy(h, i) == [h EXCEPT !.objs = Append(@, @[i])]

\* an assignment that overwrites the list the attribute refers to
HeapBind_inplace(h, i, field, l) ==
    [h EXCEPT !.lists[h.objs[i][field]] = l]

\* self._SELECT = <list> / self._ORDER_BY = <list>: the attribute of object i
\* is bound to a new list
HeapBind(h, i, field, l) ==
    [lists |-> Append(h.lists, l),
     objs |-> [h.objs EXCEPT ![i][field] = Len(h.lists) + 1]]

\* list.__iadd__: the list the attribute refers to is extended
HeapExtend(h, i, field, l) ==
    [h EXCEPT !.lists[h.objs[i][field]] = @ \o l]

\* SOQL.SELECT_AND on object i: self.SELECT += self.list_from_csv(value)
\* reads the list, extends it and passes it to the setter
HeapSELECT_AND(h, i, value) ==
    LET e == HeapExtend(h, i, "SELECT", list_from_csv(value, PyNone))
    IN  HeapBind(e, i, "SELECT",
                 list_from_csv(List(e.lists[e.objs[i].SELECT]), PyNone))

\* SOQL.ORDER_BY_AND on object i
HeapORDER_BY_AND(h, i, value) ==
    LET e == HeapExtend(h, i, "ORDER_BY", list_from_csv(value, PyNone))
    IN  HeapBind(e, i, "ORDER_BY",
                 list_from_csv(List(e.lists[e.objs[i].ORDER_BY]),
                               Str(<<"Id">>)))

\* SF.query_count on object i: the copy, SELECT = 'COUNT()', del ORDER_BY
HeapQueryCount(h, i) ==
    LET c == SoqlCopy(h, i)
        n == Len(c.objs)
        s == HeapBind(c, n, "SELECT",
                      list_from_csv(Str(<<"COUNT()">>), PyNone))
    IN  HeapBind(s, n, "ORDER_BY", <<>>)

\* SF.query lines 221-226 on object i
HeapPreload(h, i, sfpreload) ==
    LET p == Preload(h.objs[i], sfpreload)
        a == [h EXCEPT !.objs[i].preload_fields = p]
    IN  IF p = "True"
        THEN HeapBind(a, i, "SELECT",
                      list_from_csv(Str(<<"FIELDS(ALL)">>), PyNone))
        ELSE a

CopyInputs ==
    [SELECT : {Str(<<"A">>), Str(<<"A", ",", "B">>)},
     FROM : {Str(<<"Case">>)},
     WHERE : {PyNone},
     ORDER_BY : {PyNone, Str(<<"B">>)},
     LIMIT : {PyNone, PyInt(300)},
     OFFSET : {PyNone, PyInt(1)}]

AndInputs == {Str(<<"B">>), Str(<<"A", ",", "C">>), PyNone}

InitCopy ==
    /\ preload_fields \in BOOLEAN
    /\ Idle
    /\ NoMerge
    /\ NoBuilder /\ NoWhere /\ NoTypes /\ NoCache
    /\ \E a \in CopyInputs, p \in {"None", "True", "False"} :
        heap = NewSoql(a, p)
    /\ hop = "none" /\ hpc = "none" /\ hbefore = Contents(heap)
    /\ htarget = 0 /\ hnops = 0

Frame ==
    UNCHANGED <<queryVars, addVars, soqlVars, whereVars, typeVars, cacheVars>>

\* c = copy(q)
CopyMake ==
    /\ hop = "none"
    /\ hop' = "copy"
    /\ heap' = SoqlCopy(heap, 1)
    /\ hbefore' = Contents(heap')
    /\ UNCHANGED <<hpc, htarget, hnops>>
    /\ Frame

\* q.SELECT_AND(value) or c.SELECT_AND(value)
CopySELECT_AND ==
    /\ hop = "copy" /\ hnops < MaxCopyOps
    /\ \E i \in 1..2, value \in AndInputs :
        /\ heap' = HeapSELECT_AND(heap, i, value)
        /\ htarget' = i
    /\ hbefore' = Contents(heap)
    /\ hnops' = hnops + 1
    /\ UNCHANGED <<hop, hpc>>
    /\ Frame

\* q.ORDER_BY_AND(value) or c.ORDER_BY_AND(value)
CopyORDER_BY_AND ==
    /\ hop = "copy" /\ hnops < MaxCopyOps
    /\ \E i \in 1..2, value \in AndInputs :
        /\ heap' = HeapORDER_BY_AND(heap, i, value)
        /\ htarget' = i
    /\ hbefore' = Contents(heap)
    /\ hnops' = hnops + 1
    /\ UNCHANGED <<hop, hpc>>
    /\ Frame

\* sf.query_count(q): returns the total or raises what the remote call raised
CopyQueryCount ==
    /\ hop = "none"
    /\ hop' = "query_count"
    /\ heap' = HeapQueryCount(heap, 1)
    /\ hpc' \in {"returned", "raised"}
    /\ hbefore' = Contents(heap)
    /\ UNCHANGED <<htarget, hnops>>
    /\ Frame

\* sf.query(q) lines 210-216: the copy, then query_count on the copy
CopyQuery ==
    /\ hop = "none"
    /\ hop' = "query"
    /\ heap' = HeapQueryCount(SoqlCopy(heap, 1), 2)
    /\ hpc' \in {"counted", "raised"}
    /\ hbefore' = Contents(heap)
    /\ UNCHANGED <<htarget, hnops>>
    /\ Frame

\* sf.query(q) lines 218-236 on the copy, for a counted total c
CopyQueryBounds ==
    /\ hop = "query" /\ hpc = "counted"
    /\ \E c \in Totals :
        LET hl == HardLimit(heap.objs[2], preload_fields)
            p == HeapPreload(heap, 2, preload_fields)
        IN  IF TooManyResults(CappedCount(heap.objs[2], c), hl)
            THEN /\ heap' = p
                 /\ hpc' = "raised"
            ELSE /\ heap' = [p EXCEPT !.objs[2].LIMIT = hl]
                 /\ hpc' = "page"
    /\ UNCHANGED <<hop, hbefore, htarget, hnops>>
    /\ Frame

\* sf.query(q) lines 238-242: a page fetch raises, or its page ends the loop,
\* or the next page is asked for at the offset reached
CopyQueryPage ==
    /\ hop = "query" /\ hpc = "page"
    /\ \/ /\ hpc' \in {"raised", "returned"}
          /\ UNCHANGED heap
       \/ /\ \E pages \in 1..2 :
               LET o == pages * heap.objs[2].LIMIT
               IN  /\ o # heap.objs[2].OFFSET
                   /\ heap' = [heap EXCEPT !.objs[2].OFFSET = o]
          /\ UNCHANGED hpc
    /\ UNCHANGED <<hop, hbefore, htarget, hnops>>
    /\ Frame

NextCopy ==
    \/ CopyMake \/ CopySELECT_AND \/ CopyORDER_BY_AND
    \/ CopyQueryCount \/ CopyQuery \/ CopyQueryBounds \/ CopyQueryPage

SpecCopy == InitCopy /\ [][NextCopy]_vars

-----------------------------------------------------------------------------
(* sftools/type.py: the identity cache of a type proxy                       *)
(*                                                                           *)
(* SFType.__call__ and SFType._record_to_sfobject, run by one caller         *)
(* (SpecObjects) or by two callers whose statements interleave (SpecRace).   *)
(* An SFObject is identified by its position in orecord.                     *)

MaxObjCalls == 3

\* record.get(key)
RecordGet(record, key) ==
    IF key \in DOMAIN record THEN record[key] ELSE "None"

\* a dict.update that keeps the value a key already has
DictUpdate_keep(d, record) ==
    [k \in DOMAIN d \cup DOMAIN record |->
        IF k \in DOMAIN d THEN d[k] ELSE record[k]]

\* dict.update(record)
DictUpdate(d, record) ==
    [k \in DOMAIN d \cup DOMAIN record |->
        IF k \in DOMAIN record THEN record[k] ELSE d[k]]

\* d[key] = value
DictSet(d, key, value) ==
    [k \in DOMAIN d \cup {key} |-> IF k = key THEN value ELSE d[k]]

\* a lookup that never finds the identifier
CacheHit_never(cache, objid) == FALSE

\* objid in self._sfobjects
CacheHit(cache, objid) == objid \in DOMAIN cache

\* the record with the given Id, a and b ("": the key is absent)
MkRec(id, a, b) ==
    LET ks == (IF id = "" THEN {} ELSE {"Id"})
              \cup (IF a = "" THEN {} ELSE {"a"})
              \cup (IF b = "" THEN {} ELSE {"b"})
    IN  [k \in ks |-> CASE k = "Id" -> id [] k = "a" -> a [] OTHER -> b]

\* records a caller or a query result holds
Records ==
    {MkRec("x", a, b) : a \in {"", "1", "2"}, b \in {"", "1"}}
    \cup {MkRec("y", a, "") : a \in {"", "1"}}
    \cup {MkRec("", a, "") : a \in {"", "1"}}

\* identifiers a caller asks for ("" stands for '' and None)
IdArgs == {"x", "y", ""}

\* the parameters SF.query binds besides self
SFQueryParams == {"soql_or_where"}

\* the keyword arguments SFType.query passes to it
TypeQueryKwargs == {"select", "frm", "where", "preload_fields"}

\* a call f(**kwargs) binds when every keyword names a parameter and every
\* parameter, none of which has a default, is given
CallBinds(params, kwargs) == kwargs \subseteq params /\ params \subseteq kwargs

\* how a remote call through the type's wrapper ends
RemoteOutcomes == {"ok", "SalesforceMalformedRequest", "SalesforceGeneralError"}

Returns(o) == [status |-> "returned", obj |-> o, err |-> "none"]

Raises(e) == [status |-> "raised", obj |-> 0, err |-> e]

InitObjects ==
    /\ preload_fields = FALSE
    /\ Idle
    /\ NoMerge
    /\ NoBuilder /\ NoWhere /\ NoTypes /\ NoCopy /\ NoCache

CacheFrame ==
    UNCHANGED <<queryVars, addVars, soqlVars, whereVars, typeVars, copyVars>>

\* a call of caller c begins
Begin(c) ==
    /\ cpc[c] = "idle"
    /\ ncalls < MaxObjCalls
    /\ ncalls' = ncalls + 1
    /\ cbefore' = [cbefore EXCEPT ![c] =
                      [cache |-> sfobjects, recs |-> orecord]]

\* _record_to_sfobject lines 122-123: the identifier is looked up
Enter(c, record) ==
    LET objid == RecordGet(record, "Id")
    IN  /\ cpc' = [cpc EXCEPT ![c] =
                      IF CacheHit(sfobjects, objid) THEN "hit" ELSE "miss"]
        /\ raced' = IF /\ ~CacheHit(sfobjects, objid)
                       /\ \E d \in Callers \ {c} :
                            /\ cpc[d] \in {"miss", "made"}
                            /\ RecordGet(carg[d].rec, "Id") = objid
                    THEN raced \cup {objid} ELSE raced

\* the call ends with result r
Leave(c, r) ==
    /\ cres' = [cres EXCEPT ![c] = r]
    /\ cpc' = [cpc EXCEPT ![c] = "idle"]

\* SFType.__call__(record), lines 131-136
TypeCallRecord(c) ==
    /\ Begin(c)
    /\ \E record \in Records :
        /\ carg' = [carg EXCEPT ![c] =
                       [kind |-> "record", rec |-> record, id |-> ""]]
        /\ IF record = EmptyRec
           THEN /\ Leave(c, Returns(0))
                /\ UNCHANGED raced
           ELSE /\ Enter(c, record)
                /\ cres' = [cres EXCEPT ![c] = NoRes]
    /\ nremote' = [nremote EXCEPT ![c] = 0]
    /\ cobj' = [cobj EXCEPT ![c] = 0]
    /\ UNCHANGED <<sfobjects, orecord, tinfos>>
    /\ CacheFrame

\* SFType.__call__(id), lines 131-143, with SFType.query (lines 145-165) and
\* Result.sfobject: a cached identifier is answered from _sfobjects; another
\* one goes through SFType.query, which reads _where_recordtypeids (a describe
\* call the first time) and then calls SF.query with keyword arguments
TypeCallId(c) ==
    /\ Begin(c)
    /\ cobj' = [cobj EXCEPT ![c] = 0]
    /\ \E id \in IdArgs :
        /\ \/ /\ id = ""
              /\ Leave(c, Returns(0))
              /\ carg' = [carg EXCEPT ![c] =
                             [kind |-> "id", rec |-> EmptyRec, id |-> id]]
              /\ nremote' = [nremote EXCEPT ![c] = 0]
              /\ UNCHANGED <<tinfos, raced>>
           \/ /\ id # "" /\ CacheHit(sfobjects, id)
              /\ Leave(c, Returns(sfobjects[id]))
              /\ carg' = [carg EXCEPT ![c] =
                             [kind |-> "id", rec |-> EmptyRec, id |-> id]]
              /\ nremote' = [nremote EXCEPT ![c] = 0]
              /\ UNCHANGED <<tinfos, raced>>
           \/ /\ id # "" /\ ~CacheHit(sfobjects, id)
              /\ \E described \in IF tinfos THEN {"ok"} ELSE RemoteOutcomes :
                  LET n == IF tinfos THEN 0 ELSE 1
                      arg == [kind |-> "id", rec |-> EmptyRec, id |-> id]
                  IN  IF described = "SalesforceMalformedRequest"
                      THEN /\ Leave(c, Returns(0))
                           /\ carg' = [carg EXCEPT ![c] = arg]
                           /\ nremote' = [nremote EXCEPT ![c] = n]
                           /\ UNCHANGED <<tinfos, raced>>
                      ELSE IF described # "ok"
                      THEN /\ Leave(c, Raises(described))
                           /\ carg' = [carg EXCEPT ![c] = arg]
                           /\ nremote' = [nremote EXCEPT ![c] = n]
                           /\ UNCHANGED <<tinfos, raced>>
                      ELSE IF ~CallBinds(SFQueryParams, TypeQueryKwargs)
                      THEN /\ Leave(c, Raises("TypeError"))
                           /\ carg' = [carg EXCEPT ![c] = arg]
                           /\ nremote' = [nremote EXCEPT ![c] = n]
                           /\ tinfos' = TRUE
                           /\ UNCHANGED raced
                      ELSE /\ tinfos' = TRUE
                           /\ nremote' = [nremote EXCEPT ![c] = n + 1]
                           /\ \E queried \in RemoteOutcomes \cup {"empty"} :
                               IF queried = "ok"
                               THEN /\ carg' = [carg EXCEPT ![c] =
                                                 [arg EXCEPT !.rec =
                                                      MkRec(id, "", "")]]
                                    /\ Enter(c, MkRec(id, "", ""))
                                    /\ cres' = [cres EXCEPT ![c] = NoRes]
                               ELSE /\ carg' = [carg EXCEPT ![c] = arg]
                                    /\ Leave(c,
                                         IF queried \in
                                              {"empty",
                                               "SalesforceMalformedRequest"}
                                         THEN Returns(0) ELSE Raises(queried))
                                    /\ UNCHANGED raced
    /\ UNCHANGED <<sfobjects, orecord>>
    /\ CacheFrame

\* _record_to_sfobject lines 124-125 and 129: the cached object takes the
\* record's fields and is returned
MatUpdate(c) ==
    /\ cpc[c] = "hit"
    /\ LET obj == sfobjects[RecordGet(carg[c].rec, "Id")]
       IN  /\ orecord' = [orecord EXCEPT ![obj] = DictUpdate(@, carg[c].rec)]
           /\ cobj' = [cobj EXCEPT ![c] = obj]
           /\ Leave(c, Returns(obj))
    /\ UNCHANGED <<sfobjects, carg, cbefore, nremote, tinfos, raced, ncalls>>
    /\ CacheFrame

\* _record_to_sfobject line 127: a new SFObject holding the record
MatConstruct(c) ==
    /\ cpc[c] = "miss"
    /\ orecord' = Append(orecord, carg[c].rec)
    /\ cobj' = [cobj EXCEPT ![c] = Len(orecord) + 1]
    /\ cpc' = [cpc EXCEPT ![c] = "made"]
    /\ UNCHANGED <<sfobjects, carg, cres, cbefore, nremote, tinfos, raced,
                   ncalls>>
    /\ CacheFrame

\* _record_to_sfobject lines 128-129: the new object is stored and returned
MatInsert(c) ==
    /\ cpc[c] = "made"
    /\ sfobjects' = DictSet(sfobjects, RecordGet(carg[c].rec, "Id"), cobj[c])
    /\ Leave(c, Returns(cobj[c]))
    /\ UNCHANGED <<orecord, carg, cobj, cbefore, nremote, tinfos, raced,
                   ncalls>>
    /\ CacheFrame

CallerStep(c) ==
    \/ TypeCallRecord(c) \/ TypeCallId(c)
    \/ MatUpdate(c) \/ MatConstruct(c) \/ MatInsert(c)

\* one caller
NextObjects == CallerStep(1)

SpecObjects == InitObjects /\ [][NextObjects]_vars

\* two callers without synchronization
NextRace == \E c \in Callers : CallerStep(c)

SpecRace == InitObjects /\ [][NextRace]_vars

-----------------------------------------------------------------------------
(* Properties *)

\* the mode cap, the ceiling and the target total as the specification
\* states them, from the caller's query and the counted total
PreloadAll ==
    \/ caller.preload_fields = "True"
    \/ caller.preload_fields = "None" /\ preload_fields

Cap == IF PreloadAll THEN 200 ELSE 2000

Ceiling == IF caller.LIMIT > 0 THEN Min(caller.LIMIT, Cap) ELSE Cap

Target == IF caller.LIMIT > 0 THEN Min(caller.LIMIT, counted) ELSE counted

Returned == op = "query" /\ outcome = "returned"

InPageLoop == op = "query" /\ qpc \in {"page", "loop"} /\ outcome = "none"

Occurrences(s, x) == Cardinality({i \in 1..Len(s) : s[i] = x})

IsPrefix(s, t) == Len(s) <= Len(t) /\ \A i \in 1..Len(s) : s[i] = t[i]

\* C1: every query that passed the bounds check leaves its page loop (it
\* returns or raises), whatever pages the remote answers with.
C1_PageLoopTerminates == InPageLoop ~> (outcome # "none")

\* C2 as stated: a count of 4500 in ordinary mode without explicit limit
\* ends in 3 page fetches at offsets 0, 2000 and 4000 and returns 4500
\* records with complete = true (remote failures aside).
C2_ThreePagesOf4500 ==
    (/\ op = "query" /\ counted = 4500 /\ ~PreloadAll /\ caller.LIMIT = 0
     /\ outcome # "none"
     /\ err \notin {"TransportError", "SalesforceExpiredSession",
                    "HTTPError"})
    => /\ outcome = "returned"
       /\ nfetch = 3
       /\ offsets = <<0, 2000, 4000>>
       /\ Len(records(results)) = 4500
       /\ done(results)

\* C2 amended: a count of 4500 in ordinary mode without explicit limit fails
\* the bounds check (4500 > 2000 + 2000) before any page fetch; a count of
\* 4000 with caller offset 0 and full pages ends in exactly 2 page fetches at
\* offsets 0 and 2000 and returns 4000 records with complete = true.
C2_TwoPagesOf4000 ==
    /\ (op = "query" /\ counted = 4500 /\ ~PreloadAll /\ caller.LIMIT = 0)
       => /\ outcome = "raised"
          /\ err = "TooManyResults"
          /\ nfetch = 0
    /\ (/\ op = "query" /\ counted = 4000 /\ ~PreloadAll /\ caller.LIMIT = 0
        /\ caller.OFFSET = 0 /\ allFull)
       => /\ nfetch \in {1, 2}
          /\ offsets = SubSeq(<<0, 2000>>, 1, nfetch)
          /\ Returned
             => /\ nfetch = 2
                /\ Len(records(results)) = 4000
                /\ done(results)

C2_Witness ==
    /\ Returned /\ counted = 4000 /\ ~PreloadAll /\ caller.LIMIT = 0
    /\ caller.OFFSET = 0 /\ allFull /\ nfetch = 2

\* C3: the too-many-results error is raised exactly when the limit-capped
\* total exceeds 2000 + ceiling, and then no page was fetched; a count of
\* 4500 in preload-all-fields mode without explicit limit raises it.
C3_TooManyResults ==
    /\ err = "TooManyResults"
       => /\ op = "query" /\ outcome = "raised"
          /\ Target > 2000 + Ceiling
          /\ nfetch = 0
    /\ (op = "query" /\ nfetch > 0) => Target <= 2000 + Ceiling
    /\ (op = "query" /\ counted = 4500 /\ PreloadAll /\ caller.LIMIT = 0)
       => err = "TooManyResults"

C3_Witness ==
    /\ err = "TooManyResults" /\ counted = 4500 /\ PreloadAll
    /\ caller.LIMIT = 0 /\ nfetch = 0

\* C4: with an explicit limit L > 0 the returned result holds at most L
\* records.
C4_AtMostLimit ==
    (Returned /\ caller.LIMIT > 0)
    => Len(records(results)) <= caller.LIMIT

\* C5: a query that returns normally returns at least the target total of
\* records, and a target beyond 2000 + ceiling never returns normally.
C5_NeverTruncated ==
    Returned
    => /\ Len(records(results)) >= Target
       /\ Target <= 2000 + Ceiling

C5_Witness ==
    /\ Returned /\ nmerge > 0 /\ ~allFull /\ Target > 0
    /\ Len(records(results)) = Target

\* C6: merging two partial results that carry the same total leaves the
\* total unchanged (it is not summed).
C6_TotalNotSummed ==
    (addDone /\ totalSize(addA) = totalSize(addB))
    => totalSize(addR) = totalSize(addA)

\* C7: the merged records are A's records followed by B's, in order, and the
\* merged result is complete exactly when A or B is.
C7_Concatenation ==
    addDone
    => LET a == records(addA)
           b == records(addB)
           r == records(addR)
       IN  /\ Len(r) = Len(a) + Len(b)
           /\ \A i \in 1..Len(a) : r[i] = a[i]
           /\ \A j \in 1..Len(b) : r[Len(a) + j] = b[j]
           /\ done(addR) = (done(addA) \/ done(addB))

C7_Witness ==
    /\ addDone
    /\ records(addA) = <<"r1", "r2">> /\ records(addB) = <<"r3", "r4">>
    /\ ~done(addA) /\ done(addB)
    /\ records(addR) = <<"r1", "r2", "r3", "r4">> /\ done(addR)

WrapperOrder ==
    IF after_refresh THEN <<"action", "refresh", "afterRefresh", "action">>
    ELSE <<"action", "refresh", "action">>

C9_RetryOnce ==
    /\ IsPrefix(events, WrapperOrder)
    /\ Occurrences(events, "action") <= 2
    /\ Occurrences(events, "refresh") <= 1
    /\ attempts = <<"expired", "ok">>
       => /\ events = WrapperOrder
          /\ refreshed = "ok"
          /\ IF op = "query"
             THEN /\ wpc \in {"returned", "none"}
                  /\ wpc = "returned"
                     => \E m \in Totals : ret = Response(sent, m)
             ELSE outcome = "returned" /\ ret \in ActionResults
          /\ err \in {"none", "TooManyResults"}
    /\ attempts = <<"expired", "expired">>
       => /\ events = WrapperOrder
          /\ outcome = "raised"
          /\ err = "SalesforceExpiredSession"

C9_Witness ==
    /\ op = "call" /\ after_refresh
    /\ attempts = <<"expired", "ok">>
    /\ outcome = "returned"
    /\ events = <<"action", "refresh", "afterRefresh", "action">>

\* C10: when the refresh fails with a ValueError the wrapper raises the
\* original expired-session error, having run neither afterRefresh nor the
\* action a second time.
C10_OriginalErrorOnRefreshFailure ==
    refreshed = "ValueError"
    => /\ outcome = "raised"
       /\ err = "SalesforceExpiredSession"
       /\ events = <<"action", "refresh">>
       /\ attempts = <<"expired">>

C10_Witness ==
    /\ op = "call" /\ after_refresh /\ refreshed = "ValueError"
    /\ outcome = "raised"

\* C11: an error of the wrapped action other than the expired-session error
\* leaves the wrapper as it is, after no refresh and no further attempt; a
\* refresh happens only after the first attempt raised the expired-session
\* error, never after a first attempt that succeeded.
C11_OtherErrorsPropagate ==
    /\ (attempts # <<>> /\ attempts[Len(attempts)] = "error")
       => /\ outcome = "raised"
          /\ err = "TransportError"
          /\ events = SubSeq(WrapperOrder, 1, Len(events))
          /\ events[Len(events)] = "action"
    /\ (attempts # <<>> /\ attempts[1] = "error")
       => /\ attempts = <<"error">>
          /\ events = <<"action">>
          /\ refreshed = "none"
    /\ (attempts # <<>> /\ attempts[1] = "ok")
       => /\ attempts = <<"ok">>
          /\ events = <<"action">>
          /\ refreshed = "none"
    /\ (Occurrences(events, "refresh") > 0 \/ refreshed # "none")
       => /\ attempts # <<>>
          /\ attempts[1] = "expired"

C11_Witness ==
    /\ op = "call" /\ after_refresh
    /\ attempts = <<"error">>
    /\ events = <<"action">>
    /\ outcome = "raised" /\ err = "TransportError"
    /\ refreshed = "none"

\* the field names an argument of the builder holds, in the order given
ArgFields(value) ==
    IF ~Truthy(value) THEN <<>>
    ELSE IF value.t = "list" THEN Filled(value.v)
    ELSE Filled([i \in 1..Len(split(value.v)) |-> strip(split(value.v)[i])])

\* l without the repetitions of an element that came earlier
FirstSeen(l) ==
    LET F[i \in 0..Len(l)] ==
            IF i = 0 THEN <<>>
            ELSE IF \E j \in 1..(i - 1) : l[j] = l[i] THEN F[i - 1]
            ELSE Append(F[i - 1], l[i])
    IN  F[Len(l)]

NoDups(l) == \A i, j \in 1..Len(l) : l[i] = l[j] => i = j

Rendered == Built /\ sqtext.status = "text"

\* C12: SOQL.clause is SELECT <projection> FROM <source> followed by WHERE,
\* ORDER BY, LIMIT and OFFSET in that order, each present exactly when its
\* value is non-empty (filter, ordering) or greater than zero (limit,
\* offset).
C12_ClausesInFixedOrder ==
    Rendered
    => sqtext.text =
          <<"SELECT", " ">> \o join(<<",">>, sq.SELECT)
          \o <<" ", "FROM", " ">> \o sq.FROM.v
          \o (IF Truthy(sq.WHERE)
              THEN <<" ", "WHERE", " ">> \o sq.WHERE.v ELSE <<>>)
          \o (IF sq.ORDER_BY # <<>>
              THEN <<" ", "ORDER BY", " ">> \o join(<<",">>, sq.ORDER_BY)
              ELSE <<>>)
          \o (IF sq.LIMIT > 0
              THEN <<" ", "LIMIT", " ", ToString(sq.LIMIT)>> ELSE <<>>)
          \o (IF sq.OFFSET > 0
              THEN <<" ", "OFFSET", " ", ToString(sq.OFFSET)>> ELSE <<>>)

NoPagingOrOrdering ==
    /\ ~Contains(sqtext.text, "ORDER BY")
    /\ ~Contains(sqtext.text, "LIMIT")
    /\ ~Contains(sqtext.text, "OFFSET")

C14_ClauseFailsIffIncomplete ==
    (Built /\ sqtext.status # "none")
    => /\ sqtext.status = "ValueError"
          <=> (sq.SELECT = <<>> \/ sq.FROM \in {PyNone, Str(<<>>)})
       /\ sqtext.status = "ValueError" => sqtext.text = <<>>
       /\ sqtext.status # "ValueError"
          => /\ sqtext.status = "text"
             /\ Len(sqtext.text) >= 6
             /\ SubSeq(sqtext.text, 1, 2) = <<"SELECT", " ">>

C14_Witness ==
    /\ Built /\ sqtext.status = "ValueError"
    /\ sq.SELECT # <<>> /\ sq.FROM = PyNone

\* C15: the source of a query never holds ','; giving FROM a value with ','
\* raises the validation error, at construction (no object) and in the
\* setter (the object is left as it was).
C15_SingleSource ==
    /\ Truthy(sq.FROM) => ~Contains(sq.FROM.v, ",")
    /\ (sqop = "FROM" /\ Truthy(sqarg) /\ Contains(sqarg.v, ","))
       => /\ sqerr = "ValueError"
          /\ sq = sqprev
    /\ (sqop = "init" /\ Truthy(sqarg.FROM) /\ Contains(sqarg.FROM.v, ","))
       => /\ sqerr = "ValueError"
          /\ ~Built
          /\ sq = NoObject

C15_Witness ==
    /\ sqop = "FROM" /\ sqarg = Str(<<"Case", ",", "Account">>)
    /\ sqerr = "ValueError"
    /\ sqprev.FROM = Str(<<"Case">>)
    /\ sq.FROM = Str(<<"Case">>)

\* C16: a negative LIMIT or OFFSET is rejected with the validation error, so
\* the limit and the offset of a query are never negative and no rendered
\* text carries a negative LIMIT or OFFSET.
C16_NeverNegative ==
    /\ sq.LIMIT >= 0
    /\ sq.OFFSET >= 0
    /\ (sqop \in {"LIMIT", "OFFSET"} /\ Truthy(sqarg) /\ sqarg.n < 0)
       => /\ sqerr = "ValueError"
          /\ sq = sqprev
    /\ Rendered => ~Contains(sqtext.text, ToString(-1))

\* C17: SELECT_AND and ORDER_BY_AND leave the projection and the ordering
\* without repeated names (names compared as written), each name at the
\* place of its first appearance; [A,B,A] added to an empty projection gives
\* [A,B], and adding names that are all present changes nothing.
C17_DedupFirstSeen ==
    /\ NoDups(sq.SELECT)
    /\ NoDups(sq.ORDER_BY)
    /\ sqop = "SELECT_AND"
       => /\ sq.SELECT = FirstSeen(sqprev.SELECT \o ArgFields(sqarg))
          /\ (\A i \in 1..Len(ArgFields(sqarg)) :
                Contains(sqprev.SELECT, ArgFields(sqarg)[i]))
             => sq.SELECT = sqprev.SELECT
          /\ (sqprev.SELECT = <<>>
              /\ sqarg = List(<<<<"A">>, <<"B">>, <<"A">>>>))
             => sq.SELECT = <<<<"A">>, <<"B">>>>
    /\ (sqop = "ORDER_BY_AND" /\ sqprev.ORDER_BY \o ArgFields(sqarg) # <<>>)
       => /\ sq.ORDER_BY = FirstSeen(sqprev.ORDER_BY \o ArgFields(sqarg))
          /\ (\A i \in 1..Len(ArgFields(sqarg)) :
                Contains(sqprev.ORDER_BY, ArgFields(sqarg)[i]))
             => sq.ORDER_BY = sqprev.ORDER_BY

C17_Witness ==
    /\ sqop = "SELECT_AND"
    /\ sqprev.SELECT = <<>>
    /\ sqarg = List(<<<<"A">>, <<"B">>, <<"A">>>>)
    /\ sq.SELECT = <<<<"A">>, <<"B">>>>

\* the fragments AND / OR keep, each in parentheses, joined by the word
Joined(word, args) ==
    LET kept == Kept(args)
        J[i \in 0..Len(kept)] ==
            IF i = 0 THEN <<>>
            ELSE (IF i = 1 THEN <<>> ELSE J[i - 1] \o <<" ", word, " ">>)
                 \o <<"(">> \o kept[i].v \o <<")">>
    IN  J[Len(kept)]

\* the values IN keeps, each in quotes, joined by ','
Quoted(args) ==
    LET kept == Kept(args)
        Q[i \in 0..Len(kept)] ==
            IF i = 0 THEN <<>>
            ELSE (IF i = 1 THEN <<>> ELSE Q[i - 1] \o <<",">>)
                 \o <<"'">> \o kept[i].v \o <<"'">>
    IN  Q[Len(kept)]

\* C18: WhereUtil.IN(field, *values) is field IN ('v1','v2',...) over the
\* non-empty values in the order given, and the empty string when there is
\* none; WhereUtil.LIKE is the empty string when the field or the value is
\* missing.
C18_InAndLike ==
    /\ (wfn = "WhereUtil.IN" /\ Truthy(wname))
       => wout = IF Kept(wargs) = <<>> THEN Str(<<>>)
                 ELSE Str(wname.v \o <<" ", "IN", " ", "(">>
                          \o Quoted(wargs) \o <<")">>)
    /\ (wfn = "WhereUtil.LIKE" /\ (~Truthy(wname) \/ ~Truthy(wargs[1])))
       => wout = Str(<<>>)

\* C19: WhereUtil.AND / WhereUtil.OR put each non-empty fragment in
\* parentheses and join them with ' AND ' / ' OR ' in the order given; empty
\* and None fragments are dropped, and with none left the result is the
\* empty string; AND("", "X='1'", None) is "(X='1')".
C19_AndOr ==
    /\ wfn = "WhereUtil.AND" => wout = Str(Joined("AND", wargs))
    /\ wfn = "WhereUtil.OR" => wout = Str(Joined("OR", wargs))
    /\ (wfn \in {"WhereUtil.AND", "WhereUtil.OR"} /\ Kept(wargs) = <<>>)
       => wout = Str(<<>>)
    /\ (wfn = "WhereUtil.AND"
        /\ wargs = <<Str(<<>>), Str(<<"X='1'">>), PyNone>>)
       => wout = Str(<<"(", "X='1'", ")">>)

C19_Witness ==
    /\ wfn = "WhereUtil.AND"
    /\ wargs = <<Str(<<>>), Str(<<"X='1'">>), PyNone>>
    /\ wout = Str(<<"(", "X='1'", ")">>)

\* C20: once sftype(name) has returned an instance to a client, every later
\* sftype(name) of that client returns the same instance, without a further
\* lookup of the type.
C20_Memoized ==
    /\ (tfirst # 0 /\ tgot # 0) => tgot = tfirst
    /\ tmade <= 1
    /\ tlookups = 0

\* ceil(a / b) for b > 0
CeilDiv(a, b) == (a + b - 1) \div b

\* C23: page 0 is fetched at offset 0 and every later page at the offset
\* equal to the number of records accumulated so far, whatever limit and
\* offset the caller's query carried, so that the offsets are strictly
\* increasing; with full pages a returned query has made
\* max(1, ceil(total / ceiling)) page fetches.
C23_OffsetsFromZero ==
    (op = "query" /\ nfetch >= 1)
    => /\ offsets[1] = 0
       /\ \A i \in 2..Len(offsets) : offsets[i] > offsets[i - 1]
       /\ (InPageLoop /\ wpc # "returned")
          => sent.OFFSET = IF qpc = "page" THEN 0 ELSE totalSize(results)
       /\ (Returned /\ allFull /\ nfetch < MaxCount)
          => nfetch = Max(1, CeilDiv(count, Ceiling))

\* C24: every page fetch carries LIMIT equal to the effective ceiling: the
\* mode cap (200 with the projection replaced by FIELDS(ALL) when all fields
\* are preloaded, 2000 otherwise), lowered to an explicit limit L > 0 when L
\* is smaller; the target total is min(L, counted) with an explicit limit
\* and the counted total without one.
C24_PageLimitIsCeiling ==
    (op = "query" /\ qpc \in {"page", "loop"})
    => /\ sent.LIMIT = Ceiling
       /\ hard_limit = Ceiling
       /\ sent.SELECT = IF PreloadAll THEN <<"FIELDS(ALL)">>
                        ELSE caller.SELECT
       /\ count = Target
       /\ caller.LIMIT = 0 => (sent.LIMIT = Cap /\ count = counted)

C24_Witness ==
    /\ op = "query" /\ qpc = "loop" /\ PreloadAll /\ caller.LIMIT = 300
    /\ sent.LIMIT = 200 /\ count = 250 /\ counted = 250
    /\ sent.SELECT = <<"FIELDS(ALL)">>

\* C25: the count step sends one query through the retry wrapper, with the
\* caller's source and filter, COUNT() as its only projection and no
\* ordering, and takes the total the remote reports.
C25_CountQuery ==
    /\ [](op = "query"
          => /\ qpc = "count"
                => /\ sent.SELECT = <<"COUNT()">>
                   /\ sent.ORDER_BY = <<>>
                   /\ sent.FROM = caller.FROM
                   /\ sent.WHERE = caller.WHERE
                   /\ wpc # "none" \/ outcome = "raised"
                   /\ nfetch = 0
             /\ qpc # "count" => sent.SELECT # <<"COUNT()">>)
    /\ [][(op = "query" /\ qpc = "count" /\ qpc' # "count" /\ op' = "query")
          => (wpc = "returned" /\ counted' = totalSize(ret))]_vars

C25_Witness ==
    /\ op = "query" /\ qpc = "page" /\ counted = 250
    /\ caller.ORDER_BY = <<"Id">> /\ sent.ORDER_BY = <<"Id">>

\* C29: in a query whose caller-supplied offset is 0 and whose pages all
\* come back full, no page fetch is issued with OFFSET above 2000, in both
\* modes and with every explicit limit.
C29_OffsetAtMost2000 ==
    (op = "query" /\ caller.OFFSET = 0 /\ allFull
     /\ qpc \in {"page", "loop"})
    => /\ sent.OFFSET <= OFFSET_HARD_LIMIT
       /\ \A i \in 1..Len(offsets) : offsets[i] <= OFFSET_HARD_LIMIT

C29_Witness ==
    /\ Returned /\ caller.OFFSET = 0 /\ allFull /\ sent.OFFSET = 2000
    /\ PreloadAll /\ count = 2200

\* C28: SF.query and SF.query_count leave the caller's query object as it
\* was (projection, source, filter, ordering, limit, offset, preload flag),
\* while they run and after they returned or raised.
C28_CallerUnchanged ==
    hop \in {"query", "query_count"} => Deref(heap, 1) = hbefore[1]

C28_Witness ==
    /\ hop = "query" /\ hpc = "returned"
    /\ Deref(heap, 1) = hbefore[1]
    /\ Deref(heap, 1).SELECT = <<<<"A">>, <<"B">>>>
    /\ Deref(heap, 1).ORDER_BY = <<<<"B">>>>
    /\ Deref(heap, 2).SELECT = <<<<"FIELDS(ALL)">>>>
    /\ Deref(heap, 2).LIMIT = 200
    /\ Deref(heap, 2).OFFSET = 400
    /\ Deref(heap, 3).SELECT = <<<<"COUNT()">>>>
    /\ Deref(heap, 3).ORDER_BY = <<>>

\* C30: a copy of a query is independent of the original: SELECT_AND or
\* ORDER_BY_AND called on one of the two leaves the projection and the
\* ordering of the other as they were.
C30_CopyIndependent ==
    (hop = "copy" /\ htarget # 0)
    => \A i \in 1..2 :
         i # htarget
         => /\ Deref(heap, i).SELECT = hbefore[i].SELECT
            /\ Deref(heap, i).ORDER_BY = hbefore[i].ORDER_BY

\* the SFObjects made for an identifier
ObjectsOf(objid) ==
    {o \in 1..Len(orecord) : RecordGet(orecord[o], "Id") = objid}

\* C21: materializing a record whose identifier the proxy has cached returns
\* the cached object, whose backing mapping afterwards holds the union of
\* its fields and the record's, the record winning on shared keys; a record
\* with an identifier not yet cached creates a new object and caches it.
C21_SameObjectUnion ==
    (carg[1].kind = "record" /\ cres[1].status = "returned"
     /\ carg[1].rec # EmptyRec)
    => LET r == carg[1].rec
           objid == RecordGet(r, "Id")
           b == cbefore[1]
           o == cres[1].obj
       IN  IF objid \in DOMAIN b.cache
           THEN /\ o = b.cache[objid]
                /\ sfobjects = b.cache
                /\ Len(orecord) = Len(b.recs)
                /\ DOMAIN orecord[o] = DOMAIN b.recs[o] \cup DOMAIN r
                /\ \A k \in DOMAIN orecord[o] :
                     orecord[o][k] = IF k \in DOMAIN r THEN r[k]
                                     ELSE b.recs[o][k]
                /\ \A p \in 1..Len(orecord) : p # o => orecord[p] = b.recs[p]
           ELSE /\ o = Len(b.recs) + 1
                /\ Len(orecord) = o
                /\ orecord[o] = r
                /\ DOMAIN sfobjects = DOMAIN b.cache \cup {objid}
                /\ sfobjects[objid] = o
                /\ \A k \in DOMAIN b.cache : sfobjects[k] = b.cache[k]
                /\ \A p \in 1..Len(b.recs) : orecord[p] = b.recs[p]

C21_Witness ==
    /\ carg[1].kind = "record" /\ cres[1].status = "returned"
    /\ carg[1].rec = MkRec("x", "2", "")
    /\ cbefore[1].recs = <<MkRec("x", "1", "1")>>
    /\ cres[1].obj = 1
    /\ orecord = <<MkRec("x", "2", "1")>>

\* C22: SFType.__call__(id) returns the cached object without a remote call
\* when the identifier is cached; otherwise it issues a single-record query
\* and materializes the first result, returns None with the cache unchanged
\* when the remote reports a malformed request or no record matches, and lets
\* any other remote error propagate.
C22_LookupById ==
    (carg[1].kind = "id" /\ carg[1].id # "" /\ cpc[1] = "idle"
     /\ cres[1].status # "none")
    => LET id == carg[1].id
           b == cbefore[1]
       IN  IF id \in DOMAIN b.cache
           THEN /\ cres[1] = Returns(b.cache[id])
                /\ nremote[1] = 0
                /\ sfobjects = b.cache
           ELSE \/ /\ cres[1].status = "returned" /\ cres[1].obj # 0
                   /\ id \in DOMAIN sfobjects /\ sfobjects[id] = cres[1].obj
                \/ /\ cres[1] = Returns(0)
                   /\ sfobjects = b.cache
                \/ /\ cres[1].status = "raised"
                   /\ cres[1].err \in
                        RemoteOutcomes \ {"ok", "SalesforceMalformedRequest"}
                   /\ sfobjects = b.cache

\* C27: the proxy holds one object per identifier as long as its callers do
\* not interleave: two objects exist for one identifier only when a caller
\* looked the identifier up while another caller was between its own lookup
\* and its insertion of the same identifier.
C27_OneObjectUnlessRaced ==
    \A objid \in {"x", "y", "None"} :
        Cardinality(ObjectsOf(objid)) >= 2 => objid \in raced

C27_Witness ==
    /\ cpc[1] = "idle" /\ cpc[2] = "idle"
    /\ carg[1].kind = "record" /\ carg[2].kind = "record"
    /\ RecordGet(carg[1].rec, "Id") = "x"
    /\ RecordGet(carg[2].rec, "Id") = "x"
    /\ cbefore[1].cache = <<>> /\ cbefore[2].cache = <<>>
    /\ cres[1].status = "returned" /\ cres[2].status = "returned"
    /\ cres[1].obj # cres[2].obj
    /\ "x" \in raced

\* C26: within one client session an identifier, once materialized for a
\* type, stays bound to the same object: whatever resolve, materialize,
\* lookup-by-id and refresh calls follow, a later materialize or lookup of
\* the identifier returns the object the first one returned.
C26_BoundForTheSession ==
    (theld # 0 /\ tobj # 0) => tobj = theld

=============================================================================
